---- MODULE Spec2Model ----
(***************************************************************************)
(* Thermometer character-device driver (final revision, 30-byte buffer):   *)
(* module load/unload, open (RC charge-time measurement under the device   *)
(* mutex), read (bounded scan and copy under the mutex) and release; the   *)
(* two calibration converters at their C integer widths.                   *)
(***************************************************************************)
EXTENDS Integers, Sequences, FiniteSets, TLC

(* ------------------------------ bounds --------------------------------- *)
MaxOpens == 2            \* open calls made in one run
MaxChargeTicks == 1      \* longest RC charge time, in units of ChargeTickNs
MaxCount == 2            \* largest byte count a read asks for

(* ------------------------- program constants --------------------------- *)
TEMPURATURE_LENGTH == 30
MsleepNs == 5000000      \* msleep(5)
ChargeTickNs == 700000   \* granularity of the modelled charge time
EPERM == 1
ENOMEM == 12
ERESTARTSYS == 512
NUL == 0
NL == 10                 \* '\n'
MINUS == 45              \* '-'
ZERO == 48               \* '0'
GARBAGE == 88            \* a non-NUL byte of uninitialised heap

(* two concurrent callers, one file each *)
Procs == {1, 2}
(* O_RDWR takes the branch of O_RDONLY in thermometer_read *)
AccModes == {"O_RDONLY", "O_WRONLY"}
Counts == 1..MaxCount
ChargeTimes == {k * ChargeTickNs : k \in 1..MaxChargeTicks}

Min(a, b) == IF a <= b THEN a ELSE b

(* C integer division by a positive divisor truncates toward zero; \div   *)
(* rounds down, so an inexact negative quotient is one more               *)
TruncDiv(a, b) ==
  IF a >= 0 \/ a % b = 0 THEN a \div b ELSE (a \div b) + 1

(* --------------------------- integer widths ---------------------------- *)
INT_MAX == 2147483647
INT_MIN == -INT_MAX - 1

(* a 64-bit word is four 16-bit limbs, the most significant first *)
LimbBase == 65536
TopBit == 32768

(* the u64 of a small non-negative number *)
U64(n) == <<0, 0, n \div LimbBase, n % LimbBase>>

(* x + k modulo 2^64, for 0 <= k < LimbBase *)
AddSmall(x, k) ==
  LET s4 == x[4] + k
      s3 == x[3] + (s4 \div LimbBase)
      s2 == x[2] + (s3 \div LimbBase)
      s1 == x[1] + (s2 \div LimbBase)
  IN  <<s1 % LimbBase, s2 % LimbBase, s3 % LimbBase, s4 % LimbBase>>

(* x divided by d as unsigned, 0 < d < TopBit: long division limb by limb *)
DivSmall(x, d) ==
  LET c1 == x[1]
      c2 == (c1 % d) * LimbBase + x[2]
      c3 == (c2 % d) * LimbBase + x[3]
      c4 == (c3 % d) * LimbBase + x[4]
  IN  <<c1 \div d, c2 \div d, c3 \div d, c4 \div d>>

(* two's complement negation of a 64-bit word *)
Neg64(x) ==
  AddSmall(<<LimbBase - 1 - x[1], LimbBase - 1 - x[2], LimbBase - 1 - x[3],
             LimbBase - 1 - x[4]>>, 1)

(* the word read as s64 is negative *)
IsNeg64(x) == x[1] >= TopBit

(* div64_long(dividend, divisor): the dividend is taken as s64 and the     *)
(* quotient truncates toward zero                                          *)
div64_long(dividend, divisor) ==
  IF IsNeg64(dividend) THEN Neg64(DivSmall(Neg64(dividend), divisor))
  ELSE DivSmall(dividend, divisor)

(* conversion of a 64-bit value to int keeps its low 32 bits *)
ToInt(x) ==
  IF x[3] >= TopBit THEN (x[3] - LimbBase) * LimbBase + x[4]
  ELSE x[3] * LimbBase + x[4]

(* ----------------------- calibration converter ------------------------- *)
(* int time_to_resistance(u64 time_elapsed):                               *)
(*   return div64_long(time_elapsed, 10) + 600;                            *)
time_to_resistance(time_elapsed) ==
  ToInt(AddSmall(div64_long(time_elapsed, 10), 600))

(* relative_resistance * -10 + 22705 does not fit an int *)
SumOverflows(relative_resistance) == relative_resistance * (-10) > INT_MAX - 22705

(* the sum reduced modulo 2^32, as int arithmetic that wraps leaves it *)
WrappedSum(relative_resistance) ==
  IF SumOverflows(relative_resistance)
  THEN ((relative_resistance * (-10) - INT_MAX) - 1) + 22705 + INT_MIN
  ELSE relative_resistance * (-10) + 22705

(* (a + b) / d for 0 <= a, b within int and d > 0, whatever a + b is *)
WideSumDiv(a, b, d) == (a \div d) + (b \div d) + (((a % d) + (b % d)) \div d)

(* int resistance_to_tempurature(int resistance): the values the return    *)
(* can have.  Overflow of the int sum is undefined: a build with wrapping  *)
(* int arithmetic divides the wrapped sum, a build that keeps the sum in a *)
(* wider register divides the sum itself.                                  *)
resistance_to_tempurature_values(resistance) ==
  LET relative_resistance == TruncDiv(resistance, 10)
  IN  IF SumOverflows(relative_resistance)
      THEN {TruncDiv(WrappedSum(relative_resistance), 463),
            WideSumDiv(relative_resistance * (-10), 22705, 463)}
      ELSE {TruncDiv(relative_resistance * (-10) + 22705, 463)}

(* the conversion where the sum fits, as in every measurement open makes   *)
(* within the charge times modelled                                        *)
resistance_to_tempurature(resistance) ==
  LET relative_resistance == TruncDiv(resistance, 10)
  IN  TruncDiv(WrappedSum(relative_resistance), 463)

(* ------------------------ "%d\n" and snprintf -------------------------- *)
RECURSIVE Digits(_)
Digits(n) == IF n < 10 THEN <<ZERO + n>> ELSE Append(Digits(n \div 10), ZERO + (n % 10))

FormatD(n) == IF n < 0 THEN <<MINUS>> \o Digits(-n) ELSE Digits(n)

FormatTemperature(t) == Append(FormatD(t), NL)

(* snprintf that forgets the terminator *)
SnprintfUnterminated(buf, size, text) ==
  [i \in 1..Len(buf) |-> IF i <= Min(Len(text), size - 1) THEN text[i] ELSE buf[i]]

(* snprintf(buf, size, ...): at most size-1 characters, then a NUL; the    *)
(* bytes after the terminator keep their old value.                        *)
Snprintf(buf, size, text) ==
  LET n == Min(Len(text), size - 1)
  IN  [i \in 1..Len(buf) |->
         IF i <= n THEN text[i] ELSE IF i = n + 1 THEN NUL ELSE buf[i]]

(* strnlen(s, maxlen): index of the first NUL among the first maxlen bytes *)
RECURSIVE StrnlenFrom(_, _, _)
StrnlenFrom(s, maxlen, i) ==
  IF i >= maxlen \/ s[i + 1] = NUL THEN i ELSE StrnlenFrom(s, maxlen, i + 1)

(* a scan that takes the limit for the length *)
StrnlenWhole(s, maxlen) == maxlen

Strnlen(s, maxlen) == StrnlenFrom(s, maxlen, 0)

(* sizeof(device->temperature): temperature is declared char *, so this is *)
(* the size of a pointer, which the build fixes: 4 on a 32-bit kernel, 8   *)
(* on a 64-bit one                                                         *)
PointerSizes == {4, 8}

(* the string the buffer holds: its bytes up to the terminator, within the *)
(* TEMPURATURE_LENGTH bytes allocated                                      *)
BufString(buf) == SubSeq(buf, 1, StrnlenFrom(buf, TEMPURATURE_LENGTH, 0))

(* kmalloc_array does not clear memory: the buffer starts with whatever    *)
(* the heap held, here bytes with no terminator among them                 *)
InitBuffers ==
  { [i \in 1..TEMPURATURE_LENGTH |-> GARBAGE] }

(* ------------------------------- state --------------------------------- *)
VARIABLES
  modstate,      \* "unloaded" | "loaded" | "failed" | "removed"
  held,          \* resources the module currently holds
  loadlog,       \* acquire/release events of the last thermometer_init_module
  result,        \* value returned by the last thermometer_init_module
  sizeof_temperature, \* sizeof(device->temperature) in this build
  temperature,   \* thermometer_device.temperature, <<>> while not allocated
  device_mutex,  \* 0 when free, otherwise the caller that holds it
  out_pin,       \* level driven on OUTPUT_PIN
  in_pin,        \* level read on INPUT_PIN
  clock,         \* ktime_get_mono_fast_ns()
  nopens,        \* open calls made so far
  pc,            \* position of each caller
  isopen,        \* the caller has a file on the device
  f_flags,       \* filp->f_flags & O_ACCMODE
  f_pos,         \* *f_pos
  count,         \* read's count argument
  start,         \* open's local start, -1 before it is taken
  end,           \* open's local end, -1 before it is taken
  copy_len,      \* read's local copy_len
  return_val,    \* open's local return_val
  path,          \* exit label the running read went through
  ubuf,          \* bytes the running read stored into the caller's buffer
  uncopied,      \* what copy_to_user returned in the running read
  lastWritten,   \* text the most recent open passed to snprintf
  rt,            \* the single-byte read loop from cursor 0 of the observed caller
  call,          \* the converter called on its own, and its argument
  ret            \* what that call returned

devvars  == <<temperature, device_mutex, out_pin, in_pin, clock>>
modvars  == <<modstate, held, loadlog, result, sizeof_temperature>>
filevars == <<isopen, f_flags, f_pos>>
openvars == <<start, end, return_val>>
readvars == <<count, copy_len, path, ubuf, uncopied>>
histvars == <<lastWritten, rt>>
calcvars == <<call, ret>>
drivervars == <<modvars, devvars, nopens, pc, filevars, openvars, readvars, histvars>>
vars == <<drivervars, calcvars>>

(* the caller whose read loop is recorded; the callers are interchangeable *)
Observed == CHOOSE p \in Procs : \A q \in Procs : p <= q

(* the single-byte read loop of a session: whether it is running, the      *)
(* bytes got so far, and whether an open rewrote the buffer under it       *)
RtFresh == [state |-> "reading", got |-> <<>>, rewritten |-> FALSE]
RtNone  == [state |-> "void", got |-> <<>>, rewritten |-> FALSE]

(* --------------------------- load and unload --------------------------- *)
Resources == <<"chrdev", "temperature", "device_mutex", "OUTPUT_PIN", "INPUT_PIN", "cdev">>

(* the releases below each error label of thermometer_init_module, in the  *)
(* order the fall-through runs them                                        *)
UnwindLabels ==
  [ setup_cdev_failed          |-> <<"INPUT_PIN", "OUTPUT_PIN", "device_mutex", "temperature">>,
    request_input_pin_failed   |-> <<"OUTPUT_PIN", "device_mutex", "temperature">>,
    request_output_pin_failed  |-> <<"device_mutex", "temperature">>,
    device_mutex_malloc_failed |-> <<"temperature">>,
    tempurature_malloc_failed  |-> <<>>,
    alloc_chrdev_failed        |-> <<>> ]

(* the label the failure of step k jumps to, k = 1..6 in Resources order *)
FailLabel(k) ==
  CASE k = 1 -> "alloc_chrdev_failed"
    [] k = 2 -> "tempurature_malloc_failed"
    [] k = 3 -> "device_mutex_malloc_failed"
    [] k = 4 -> "request_output_pin_failed"
    [] k = 5 -> "request_input_pin_failed"
    [] k = 6 -> "setup_cdev_failed"

(* the error the failure of step k leaves in result; err is what the       *)
(* failing kernel call returned                                            *)
FailResult(k, err) ==
  CASE k \in {1, 6} -> err
    [] k \in {2, 3} -> -ENOMEM
    [] k \in {4, 5} -> -ERESTARTSYS

(* errors alloc_chrdev_region and cdev_add report *)
KernelErrs == {-ENOMEM}

Events(kind, rs) == [i \in 1..Len(rs) |-> <<kind, rs[i]>>]

SeqToSet(s) == {s[i] : i \in 1..Len(s)}

(* thermometer_init_module; fail = 0 when every step succeeds *)
thermometer_init_module(fail, err, garbage) ==
  /\ modstate = "unloaded"
  /\ IF fail = 0
     THEN /\ modstate' = "loaded"
          /\ held' = SeqToSet(Resources)
          /\ loadlog' = Events("acquire", Resources)
          /\ result' = 0
          /\ temperature' = garbage
          /\ device_mutex' = 0
          /\ out_pin' = 0
          /\ UNCHANGED in_pin
     ELSE LET acquired == SubSeq(Resources, 1, fail - 1)
              released == UnwindLabels[FailLabel(fail)]
          IN  /\ modstate' = "failed"
              /\ held' = SeqToSet(acquired) \ SeqToSet(released)
              /\ loadlog' = Events("acquire", acquired) \o Events("release", released)
              /\ result' = FailResult(fail, err)
              /\ out_pin' = IF fail >= 5 THEN 0 ELSE out_pin
              /\ UNCHANGED <<temperature, device_mutex, in_pin>>
  /\ UNCHANGED <<sizeof_temperature, clock, nopens, pc, filevars, openvars, readvars,
                 histvars>>
  /\ UNCHANGED calcvars

(* thermometer_cleanup_module; the kernel unloads only when no file is open *)
thermometer_cleanup_module ==
  /\ modstate = "loaded"
  /\ \A p \in Procs : pc[p] = "idle" /\ ~isopen[p]
  /\ modstate' = "removed"
  /\ held' = {}
  /\ loadlog' = Events("release", <<"cdev", "chrdev", "INPUT_PIN", "OUTPUT_PIN",
                                    "device_mutex", "temperature">>)
  /\ temperature' = <<>>
  /\ UNCHANGED <<result, sizeof_temperature, device_mutex, out_pin, in_pin, clock,
                 nopens, pc, filevars, openvars, readvars, histvars>>
  /\ UNCHANGED calcvars

(* ------------------------------ hardware ------------------------------- *)
(* the capacitor charges through the thermistor while the output is high  *)
Charge(d) ==
  /\ out_pin = 1 /\ in_pin = 0
  /\ in_pin' = 1
  /\ clock' = clock + d
  /\ UNCHANGED <<modvars, temperature, device_mutex, out_pin, nopens, pc, filevars,
                 openvars, readvars, histvars>>
  /\ UNCHANGED calcvars

(* and discharges while it is low *)
Discharge ==
  /\ out_pin = 0 /\ in_pin = 1
  /\ in_pin' = 0
  /\ UNCHANGED <<modvars, temperature, device_mutex, out_pin, clock, nopens, pc,
                 filevars, openvars, readvars, histvars>>
  /\ UNCHANGED calcvars

(* ------------------------------- mutex --------------------------------- *)
(* a lock that is granted while another caller owns it *)
MutexAcquireBarging(p) == device_mutex' = p

(* mutex_lock_interruptible returns 0: the caller owns the mutex *)
MutexAcquire(p) ==
  /\ device_mutex = 0
  /\ device_mutex' = p

(* mutex_lock_interruptible is interrupted: it only sleeps, and so is only *)
(* interruptible, while another caller owns the mutex                      *)
MutexInterrupted(p) ==
  /\ device_mutex # 0
  /\ device_mutex' = device_mutex

MutexUnlock(p) == device_mutex' = 0

(* -------------------------------- open --------------------------------- *)
(* the kernel builds the file (cursor 0, access mode from the caller) and  *)
(* calls thermometer_open: int return_val = 0                              *)
OpenCall(p, mode) ==
  /\ modstate = "loaded"
  /\ pc[p] = "idle" /\ ~isopen[p]
  /\ nopens < MaxOpens
  /\ nopens' = nopens + 1
  /\ pc' = [pc EXCEPT ![p] = "open_lock"]
  /\ f_flags' = [f_flags EXCEPT ![p] = mode]
  /\ f_pos' = [f_pos EXCEPT ![p] = 0]
  /\ return_val' = [return_val EXCEPT ![p] = 0]
  /\ UNCHANGED <<modvars, devvars, isopen, start, end, readvars, histvars>>
  /\ UNCHANGED calcvars

OpenLock(p) ==
  /\ pc[p] = "open_lock"
  /\ MutexAcquire(p)
  /\ pc' = [pc EXCEPT ![p] = "open_low"]
  /\ UNCHANGED <<modvars, temperature, out_pin, in_pin, clock, nopens, filevars,
                 openvars, readvars, histvars>>
  /\ UNCHANGED calcvars

(* the interrupted open with the sign of the error lost *)
OpenInterruptedPositive(p) ==
  /\ pc[p] = "open_lock"
  /\ MutexInterrupted(p)
  /\ return_val' = [return_val EXCEPT ![p] = ERESTARTSYS]
  /\ pc' = [pc EXCEPT ![p] = "open_return"]
  /\ UNCHANGED <<modvars, temperature, out_pin, in_pin, clock, nopens, filevars,
                 start, end, readvars, histvars>>
  /\ UNCHANGED calcvars

(* OPEN: Failed to lock mutex: return_val = -ERESTARTSYS,                  *)
(* goto device_mutex_lock_failed                                           *)
OpenInterrupted(p) ==
  /\ pc[p] = "open_lock"
  /\ MutexInterrupted(p)
  /\ return_val' = [return_val EXCEPT ![p] = -ERESTARTSYS]
  /\ pc' = [pc EXCEPT ![p] = "open_return"]
  /\ UNCHANGED <<modvars, temperature, out_pin, in_pin, clock, nopens, filevars,
                 start, end, readvars, histvars>>
  /\ UNCHANGED calcvars

(* gpio_set_value(OUTPUT_PIN, 0) *)
OpenDischarge(p) ==
  /\ pc[p] = "open_low"
  /\ out_pin' = 0
  /\ pc' = [pc EXCEPT ![p] = "open_sleep"]
  /\ UNCHANGED <<modvars, temperature, device_mutex, in_pin, clock, nopens, filevars,
                 openvars, readvars, histvars>>
  /\ UNCHANGED calcvars

(* msleep(5) *)
OpenSleep(p) ==
  /\ pc[p] = "open_sleep"
  /\ clock' = clock + MsleepNs
  /\ pc' = [pc EXCEPT ![p] = "open_t0"]
  /\ UNCHANGED <<modvars, temperature, device_mutex, out_pin, in_pin, nopens, filevars,
                 openvars, readvars, histvars>>
  /\ UNCHANGED calcvars

(* u64 start = ktime_get_mono_fast_ns() *)
OpenStart(p) ==
  /\ pc[p] = "open_t0"
  /\ start' = [start EXCEPT ![p] = clock]
  /\ pc' = [pc EXCEPT ![p] = "open_high"]
  /\ UNCHANGED <<modvars, devvars, nopens, filevars, end, return_val, readvars, histvars>>
  /\ UNCHANGED calcvars

(* gpio_set_value(OUTPUT_PIN, 1) *)
OpenCharge(p) ==
  /\ pc[p] = "open_high"
  /\ out_pin' = 1
  /\ pc' = [pc EXCEPT ![p] = "open_poll"]
  /\ UNCHANGED <<modvars, temperature, device_mutex, in_pin, clock, nopens, filevars,
                 openvars, readvars, histvars>>
  /\ UNCHANGED calcvars

(* a poll that gives up on the input *)
OpenPollTimeout(p) ==
  /\ pc[p] = "open_poll"
  /\ pc' = [pc EXCEPT ![p] = "open_t1"]
  /\ UNCHANGED <<modvars, devvars, nopens, filevars, openvars, readvars, histvars>>
  /\ UNCHANGED calcvars

(* while (gpio_get_value(INPUT_PIN) != 1) ; -- left only on a high sample *)
OpenPoll(p) ==
  /\ pc[p] = "open_poll"
  /\ in_pin = 1
  /\ pc' = [pc EXCEPT ![p] = "open_t1"]
  /\ UNCHANGED <<modvars, devvars, nopens, filevars, openvars, readvars, histvars>>
  /\ UNCHANGED calcvars

(* u64 end = ktime_get_mono_fast_ns() *)
OpenEnd(p) ==
  /\ pc[p] = "open_t1"
  /\ end' = [end EXCEPT ![p] = clock]
  /\ pc' = [pc EXCEPT ![p] = "open_write"]
  /\ UNCHANGED <<modvars, devvars, nopens, filevars, start, return_val, readvars,
                 lastWritten, rt>>
  /\ UNCHANGED calcvars

(* the text open formats into the buffer for the timestamps t0, t1 *)
MeasuredText(t0, t1) ==
  LET resistance  == time_to_resistance(U64(t1 - t0))
      tempurature == resistance_to_tempurature(resistance)
  IN  FormatTemperature(tempurature)

(* a session whose read loop has already looked at the buffer *)
HasScanned ==
  rt.state \in {"reading", "done"} /\ (rt.got # <<>> \/ pc[Observed] = "read_return")

(* an open that formats the text and never stores it *)
OpenWriteSkipped(p) ==
  /\ pc[p] = "open_write"
  /\ lastWritten' = MeasuredText(start[p], end[p])
  /\ rt' = IF HasScanned THEN [rt EXCEPT !.rewritten = TRUE] ELSE rt
  /\ pc' = [pc EXCEPT ![p] = "open_idle"]
  /\ UNCHANGED <<modvars, devvars, nopens, filevars, openvars, readvars>>
  /\ UNCHANGED calcvars

(* an open that rewinds every file when it rewrites the buffer *)
OpenWriteRewinding(p) ==
  /\ pc[p] = "open_write"
  /\ LET text == MeasuredText(start[p], end[p])
     IN  /\ temperature' = Snprintf(temperature, TEMPURATURE_LENGTH, text)
         /\ lastWritten' = text
  /\ rt' = IF HasScanned THEN [rt EXCEPT !.rewritten = TRUE] ELSE rt
  /\ pc' = [pc EXCEPT ![p] = "open_idle"]
  /\ f_pos' = [q \in Procs |-> 0]
  /\ UNCHANGED <<modvars, device_mutex, out_pin, in_pin, clock, nopens, isopen, f_flags,
                 openvars, readvars>>
  /\ UNCHANGED calcvars

(* resistance = time_to_resistance(end - start); tempurature =             *)
(* resistance_to_tempurature(resistance);                                  *)
(* snprintf(device->temperature, TEMPURATURE_LENGTH, "%d\n", tempurature)  *)
OpenWrite(p) ==
  /\ pc[p] = "open_write"
  /\ \E resistance \in {time_to_resistance(U64(end[p] - start[p]))} :
       \E tempurature \in {resistance_to_tempurature(resistance)} :
         \E text \in {FormatTemperature(tempurature)} :
           /\ temperature' = Snprintf(temperature, TEMPURATURE_LENGTH, text)
           /\ lastWritten' = text
  /\ rt' = IF HasScanned THEN [rt EXCEPT !.rewritten = TRUE] ELSE rt
  /\ pc' = [pc EXCEPT ![p] = "open_idle"]
  /\ UNCHANGED <<modvars, device_mutex, out_pin, in_pin, clock, nopens, filevars,
                 openvars, readvars>>
  /\ UNCHANGED calcvars

(* an open that leaves the output as the measurement had it *)
OpenIdleSkipped(p) ==
  /\ pc[p] = "open_idle"
  /\ pc' = [pc EXCEPT ![p] = "open_unlock"]
  /\ UNCHANGED <<modvars, devvars, nopens, filevars, openvars, readvars, histvars>>
  /\ UNCHANGED calcvars

(* gpio_set_value(OUTPUT_PIN, 0) *)
OpenIdle(p) ==
  /\ pc[p] = "open_idle"
  /\ out_pin' = 0
  /\ pc' = [pc EXCEPT ![p] = "open_unlock"]
  /\ UNCHANGED <<modvars, temperature, device_mutex, in_pin, clock, nopens, filevars,
                 openvars, readvars, histvars>>
  /\ UNCHANGED calcvars

(* an open that returns with the mutex still locked *)
OpenUnlockMissing(p) ==
  /\ pc[p] = "open_unlock"
  /\ pc' = [pc EXCEPT ![p] = "open_return"]
  /\ UNCHANGED <<modvars, devvars, nopens, filevars, openvars, readvars, histvars>>
  /\ UNCHANGED calcvars

(* mutex_unlock(device->device_mutex) *)
OpenUnlock(p) ==
  /\ pc[p] = "open_unlock"
  /\ MutexUnlock(p)
  /\ pc' = [pc EXCEPT ![p] = "open_return"]
  /\ UNCHANGED <<modvars, temperature, out_pin, in_pin, clock, nopens, filevars,
                 openvars, readvars, histvars>>
  /\ UNCHANGED calcvars

(* device_mutex_lock_failed: return return_val; on 0 the caller has a      *)
(* session, otherwise the kernel drops the file                            *)
OpenReturn(p) ==
  /\ pc[p] = "open_return"
  /\ isopen' = [isopen EXCEPT ![p] = (return_val[p] = 0)]
  /\ f_flags' = [f_flags EXCEPT ![p] = IF return_val[p] = 0 THEN f_flags[p] ELSE "O_RDONLY"]
  /\ rt' = IF p # Observed THEN rt ELSE IF return_val[p] = 0 THEN RtFresh ELSE RtNone
  /\ start' = [start EXCEPT ![p] = -1]
  /\ end' = [end EXCEPT ![p] = -1]
  /\ return_val' = [return_val EXCEPT ![p] = 0]
  /\ pc' = [pc EXCEPT ![p] = "idle"]
  /\ UNCHANGED <<modvars, devvars, nopens, f_pos, readvars, lastWritten>>
  /\ UNCHANGED calcvars

(* ------------------------------- release ------------------------------- *)
(* a release that rewinds every open file *)
thermometer_release_rewinding(p) ==
  /\ pc[p] = "idle" /\ isopen[p]
  /\ isopen' = [isopen EXCEPT ![p] = FALSE]
  /\ f_pos' = [q \in Procs |-> 0]
  /\ f_flags' = [f_flags EXCEPT ![p] = "O_RDONLY"]
  /\ rt' = IF p = Observed THEN RtNone ELSE rt
  /\ UNCHANGED <<modvars, devvars, nopens, pc, openvars, readvars, lastWritten>>
  /\ UNCHANGED calcvars

(* thermometer_release returns 0; the kernel then drops the file, and its  *)
(* cursor and access mode with it                                          *)
thermometer_release(p) ==
  /\ pc[p] = "idle" /\ isopen[p]
  /\ isopen' = [isopen EXCEPT ![p] = FALSE]
  /\ f_pos' = [f_pos EXCEPT ![p] = 0]
  /\ f_flags' = [f_flags EXCEPT ![p] = "O_RDONLY"]
  /\ rt' = IF p = Observed THEN RtNone ELSE rt
  /\ UNCHANGED <<modvars, devvars, nopens, pc, openvars, readvars, lastWritten>>
  /\ UNCHANGED calcvars

(* -------------------------------- read --------------------------------- *)
(* the single-byte read loop of the session after a read of n bytes that   *)
(* returns value and delivered bytes: a 0 ends the loop                    *)
RtAfterRead(r, n, value, bytes) ==
  IF r.state # "reading" \/ n # 1 THEN RtNone
  ELSE IF value > 0 THEN [r EXCEPT !.got = r.got \o bytes]
  ELSE [r EXCEPT !.state = "done"]

(* entry of thermometer_read: size_t copy_len = 0 *)
ReadCall(p) ==
  /\ pc[p] = "idle" /\ isopen[p]
  /\ copy_len' = [copy_len EXCEPT ![p] = 0]
  /\ pc' = [pc EXCEPT ![p] = "read_check"]
  /\ UNCHANGED <<modvars, devvars, nopens, filevars, openvars, count, path, ubuf,
                 uncopied, histvars>>
  /\ UNCHANGED calcvars

(* a read that never looks at the access mode *)
ReadCheckMissing(p) ==
  /\ pc[p] = "read_check"
  /\ pc' = [pc EXCEPT ![p] = "read_lock"]
  /\ UNCHANGED <<modvars, devvars, nopens, filevars, openvars, readvars, histvars>>
  /\ UNCHANGED calcvars

(* if ((filp->f_flags & O_ACCMODE) == O_WRONLY): return_val = -EPERM,      *)
(* goto insufficient_permissions                                           *)
ReadCheck(p) ==
  /\ pc[p] = "read_check"
  /\ IF f_flags[p] = "O_WRONLY"
     THEN /\ path' = [path EXCEPT ![p] = "insufficient_permissions"]
          /\ pc' = [pc EXCEPT ![p] = "read_return"]
          /\ rt' = IF p = Observed THEN RtAfterRead(rt, 1, copy_len[p], <<>>) ELSE rt
     ELSE /\ pc' = [pc EXCEPT ![p] = "read_lock"]
          /\ UNCHANGED <<path, rt>>
  /\ UNCHANGED <<modvars, devvars, nopens, filevars, openvars, count, copy_len, ubuf,
                 uncopied, lastWritten>>
  /\ UNCHANGED calcvars

ReadLock(p) ==
  /\ pc[p] = "read_lock"
  /\ MutexAcquire(p)
  /\ pc' = [pc EXCEPT ![p] = "read_scan"]
  /\ UNCHANGED <<modvars, temperature, out_pin, in_pin, clock, nopens, filevars,
                 openvars, readvars, histvars>>
  /\ UNCHANGED calcvars

(* an interrupted read that leaves through close_function *)
ReadInterruptedUnlocking(p) ==
  /\ pc[p] = "read_lock"
  /\ device_mutex # 0
  /\ MutexUnlock(p)
  /\ path' = [path EXCEPT ![p] = "device_mutex_lock_failed"]
  /\ pc' = [pc EXCEPT ![p] = "read_return"]
  /\ rt' = IF p = Observed THEN RtAfterRead(rt, 1, copy_len[p], <<>>) ELSE rt
  /\ UNCHANGED <<modvars, temperature, out_pin, in_pin, clock, nopens, filevars,
                 openvars, count, copy_len, ubuf, uncopied, lastWritten>>
  /\ UNCHANGED calcvars

(* READ: Failed to lock mutex: return_val = -ERESTARTSYS,                  *)
(* goto device_mutex_lock_failed                                           *)
ReadInterrupted(p) ==
  /\ pc[p] = "read_lock"
  /\ MutexInterrupted(p)
  /\ path' = [path EXCEPT ![p] = "device_mutex_lock_failed"]
  /\ pc' = [pc EXCEPT ![p] = "read_return"]
  /\ rt' = IF p = Observed THEN RtAfterRead(rt, 1, copy_len[p], <<>>) ELSE rt
  /\ UNCHANGED <<modvars, temperature, out_pin, in_pin, clock, nopens, filevars,
                 openvars, count, copy_len, ubuf, uncopied, lastWritten>>
  /\ UNCHANGED calcvars

(* copy_len = count <= (str_len - *f_pos) ? count : (str_len - *f_pos) *)
CopyLen(cnt, str_len, pos) == IF cnt <= str_len - pos THEN cnt ELSE str_len - pos

(* if f_pos >= str_len, goto close_function *)
AtEof(pos, str_len) == pos >= str_len

(* strnlen; the end-of-file test; copy_to_user, which returns the number   *)
(* of bytes it could not store and stores the ones before them; *f_pos +=; *)
(* close_function: mutex_unlock(device->device_mutex).  n is the count     *)
(* argument of the call, which the function first looks at here.           *)
ReadScan(p, n) ==
  /\ pc[p] = "read_scan"
  /\ count' = [count EXCEPT ![p] = n]
  /\ LET str_len == Strnlen(temperature, sizeof_temperature)
     IN  IF AtEof(f_pos[p], str_len)
         THEN /\ path' = [path EXCEPT ![p] = "close_function"]
              /\ rt' = IF p = Observed THEN RtAfterRead(rt, n, copy_len[p], <<>>) ELSE rt
              /\ UNCHANGED <<copy_len, ubuf, uncopied, f_pos>>
         ELSE \E u \in 0..CopyLen(n, str_len, f_pos[p]) :
                LET m == CopyLen(n, str_len, f_pos[p]) - u
                    bytes == SubSeq(temperature, f_pos[p] + 1, f_pos[p] + m)
                IN  /\ copy_len' = [copy_len EXCEPT ![p] = m]
                    /\ ubuf' = [ubuf EXCEPT ![p] = bytes]
                    /\ uncopied' = [uncopied EXCEPT ![p] = u]
                    /\ f_pos' = [f_pos EXCEPT ![p] = f_pos[p] + m]
                    /\ path' = [path EXCEPT ![p] = "copied"]
                    /\ rt' = IF p = Observed THEN RtAfterRead(rt, n, m, bytes) ELSE rt
  /\ MutexUnlock(p)
  /\ pc' = [pc EXCEPT ![p] = "read_return"]
  /\ UNCHANGED <<modvars, temperature, out_pin, in_pin, clock, nopens, isopen, f_flags,
                 openvars, lastWritten>>
  /\ UNCHANGED calcvars

(* the value every exit label of thermometer_read returns: return copy_len *)
ReadReturnValue(p) == copy_len[p]

(* device_mutex_lock_failed: insufficient_permissions: return copy_len;    *)
(* the caller takes the value, and a 0 ends its read loop                  *)
ReadReturn(p) ==
  /\ pc[p] = "read_return"
  /\ rt' = IF p = Observed /\ rt.state = "done" THEN RtNone ELSE rt
  /\ count' = [count EXCEPT ![p] = 0]
  /\ copy_len' = [copy_len EXCEPT ![p] = 0]
  /\ path' = [path EXCEPT ![p] = "none"]
  /\ ubuf' = [ubuf EXCEPT ![p] = <<>>]
  /\ uncopied' = [uncopied EXCEPT ![p] = 0]
  /\ pc' = [pc EXCEPT ![p] = "idle"]
  /\ UNCHANGED <<modvars, devvars, nopens, filevars, openvars, lastWritten>>
  /\ UNCHANGED calcvars

(* ---------------------------- specification ---------------------------- *)
DeviceInit ==
  /\ modstate = "unloaded"
  /\ held = {}
  /\ loadlog = <<>>
  /\ result = 0
  /\ sizeof_temperature \in PointerSizes
  /\ temperature = <<>>
  /\ device_mutex = 0
  /\ out_pin = 0
  /\ in_pin = 0
  /\ clock = 0
  /\ nopens = 0
  /\ pc = [p \in Procs |-> "idle"]
  /\ isopen = [p \in Procs |-> FALSE]
  /\ f_flags = [p \in Procs |-> "O_RDONLY"]
  /\ f_pos = [p \in Procs |-> 0]
  /\ count = [p \in Procs |-> 0]
  /\ start = [p \in Procs |-> -1]
  /\ end = [p \in Procs |-> -1]
  /\ copy_len = [p \in Procs |-> 0]
  /\ return_val = [p \in Procs |-> 0]
  /\ path = [p \in Procs |-> "none"]
  /\ ubuf = [p \in Procs |-> <<>>]
  /\ uncopied = [p \in Procs |-> 0]
  /\ lastWritten = <<>>
  /\ rt = RtNone

(* no converter call is made on its own while the driver runs *)
NoCall == [fn |-> "none", arg |-> 0]
Pending == [done |-> FALSE, value |-> 0]

Init ==
  /\ DeviceInit
  /\ call = NoCall
  /\ ret = Pending

Next ==
  \/ \E fail \in 0..6, err \in KernelErrs, garbage \in InitBuffers :
       thermometer_init_module(fail, err, garbage)
  \/ thermometer_cleanup_module
  \/ \E d \in ChargeTimes : Charge(d)
  \/ Discharge
  \/ \E p \in Procs, mode \in AccModes : OpenCall(p, mode)
  \/ \E p \in Procs : OpenLock(p)
  \/ \E p \in Procs : OpenInterrupted(p)
  \/ \E p \in Procs : OpenDischarge(p)
  \/ \E p \in Procs : OpenSleep(p)
  \/ \E p \in Procs : OpenStart(p)
  \/ \E p \in Procs : OpenCharge(p)
  \/ \E p \in Procs : OpenPoll(p)
  \/ \E p \in Procs : OpenEnd(p)
  \/ \E p \in Procs : OpenWrite(p)
  \/ \E p \in Procs : OpenIdle(p)
  \/ \E p \in Procs : OpenUnlock(p)
  \/ \E p \in Procs : OpenReturn(p)
  \/ \E p \in Procs : thermometer_release(p)
  \/ \E p \in Procs : ReadCall(p)
  \/ \E p \in Procs : ReadCheck(p)
  \/ \E p \in Procs : ReadLock(p)
  \/ \E p \in Procs : ReadInterrupted(p)
  \/ \E p \in Procs, n \in Counts : ReadScan(p, n)
  \/ \E p \in Procs : ReadReturn(p)

Spec == Init /\ [][Next]_vars

(* ------------------------------ scheduling ----------------------------- *)
(* the steps a caller takes on its own once it is inside open or read: the *)
(* processor keeps running it                                              *)
CallerStep(p) ==
  \/ OpenDischarge(p) \/ OpenSleep(p) \/ OpenStart(p) \/ OpenCharge(p) \/ OpenPoll(p)
  \/ OpenEnd(p) \/ OpenWrite(p) \/ OpenIdle(p) \/ OpenUnlock(p) \/ OpenReturn(p)
  \/ ReadCheck(p) \/ (\E n \in Counts : ReadScan(p, n)) \/ ReadReturn(p)

(* mutex_lock_interruptible returning with the mutex *)
LockStep(p) == OpenLock(p) \/ ReadLock(p)

(* the capacitor charges whenever the output is high; a waiter gets the    *)
(* mutex if it is free again and again (the kernel hands a mutex over to   *)
(* its waiters); a running call is not stopped                             *)
Fairness ==
  /\ \A d \in ChargeTimes : WF_vars(Charge(d))
  /\ \A p \in Procs : WF_vars(CallerStep(p))
  /\ \A p \in Procs : SF_vars(LockStep(p))

FairSpec == Init /\ [][Next]_vars /\ Fairness

(* ----------------------- the converters on their own ------------------- *)
(* limbs the elapsed times are made of: the ends of the range, the sign    *)
(* bit, and the limbs of 21474830470 and 21474830480, the elapsed times    *)
(* on either side of the largest int                                       *)
ElapsedLimbs == {0, 4, 10000, TopBit, 59526, 59536, LimbBase - 1}

(* u64 time_elapsed *)
ElapsedInputs ==
  {<<a, b, c, d>> : a \in ElapsedLimbs, b \in ElapsedLimbs, c \in ElapsedLimbs,
                    d \in ElapsedLimbs}

(* int resistance *)
ResistanceInputs ==
  {INT_MIN, -2147460950, -2147460949, -1005, -1000, -15, -1, 0, 9, 1000, 2000,
   22705, 22710, 30000, INT_MAX}

Calls ==
  [fn : {"time_to_resistance"}, arg : ElapsedInputs]
    \cup [fn : {"resistance_to_tempurature"}, arg : ResistanceInputs]

CalcInit ==
  /\ DeviceInit
  /\ call \in Calls
  /\ ret = Pending

(* resistance = time_to_resistance(end - start) *)
CallTimeToResistance ==
  /\ call.fn = "time_to_resistance" /\ ~ret.done
  /\ ret' = [done |-> TRUE, value |-> time_to_resistance(call.arg)]
  /\ UNCHANGED <<call, drivervars>>

(* tempurature = resistance_to_tempurature(resistance) *)
CallResistanceToTempurature ==
  /\ call.fn = "resistance_to_tempurature" /\ ~ret.done
  /\ \E t \in resistance_to_tempurature_values(call.arg) :
       ret' = [done |-> TRUE, value |-> t]
  /\ UNCHANGED <<call, drivervars>>

(* open hands the resistance it got on to resistance_to_tempurature *)
PassResistance ==
  /\ call.fn = "time_to_resistance" /\ ret.done
  /\ call' = [fn |-> "resistance_to_tempurature", arg |-> ret.value]
  /\ ret' = Pending
  /\ UNCHANGED drivervars

CalcNext ==
  \/ CallTimeToResistance
  \/ CallResistanceToTempurature
  \/ PassResistance

CalcSpec == CalcInit /\ [][CalcNext]_vars

(* ------------------------------- claims -------------------------------- *)
CriticalPcs ==
  {"open_low", "open_sleep", "open_t0", "open_high", "open_poll", "open_t1",
   "open_write", "open_idle", "open_unlock", "read_scan"}

InCritical(p) == pc[p] \in CriticalPcs

(* C1: at most one caller at a time is inside a measurement sequence or a  *)
(* buffer read, and the measurement intervals [T0,T1] of two opens never   *)
(* overlap.                                                                *)
C1_MutualExclusion ==
  /\ \A p, q \in Procs : p # q => ~(InCritical(p) /\ InCritical(q))
  /\ \A p, q \in Procs :
       (p # q /\ start[p] >= 0 /\ start[q] >= 0) =>
         \/ end[p] >= 0 /\ end[p] <= start[q]
         \/ end[q] >= 0 /\ end[q] <= start[p]

(* one open has both its timestamps while another has taken its T0 *)
C1_Witness ==
  \E p, q \in Procs : p # q /\ start[p] >= 0 /\ end[p] >= 0 /\ start[q] >= 0

(* C2: when a successful open releases the lock, temperature_buffer holds  *)
(* exactly the decimal text of resistance_to_temperature(                  *)
(* time_to_resistance(T1 - T0)) followed by a newline, for that open's own *)
(* timestamps, whatever the buffer held before.                            *)
C2_BufferHoldsMeasurement ==
  \A p \in Procs :
    pc[p] = "open_unlock" =>
      BufString(temperature) =
        Append(FormatD(resistance_to_tempurature(
                         time_to_resistance(U64(end[p] - start[p])))), NL)

(* a second open is about to release the lock, having written a shorter    *)
(* text over the longer one of the first                                   *)
C2_Witness ==
  \E p \in Procs :
    /\ pc[p] = "open_unlock"
    /\ nopens = 2
    /\ Len(BufString(temperature)) = 3
    /\ temperature[5] = NL

(* C3: single-byte reads from cursor 0 until a read finds end-of-stream    *)
(* yield exactly the string written at the most recent open (stated for    *)
(* the loop no open rewrote the buffer under and that ended at the         *)
(* end-of-stream test).                                                    *)
C3_RoundTrip ==
  (rt.state = "done" /\ path[Observed] = "close_function" /\ ~rt.rewritten) =>
    rt.got = lastWritten

(* C4: a read on a session opened write-only returns the permission error, *)
(* not a byte count.                                                       *)
C4_WriteOnlyReadFails ==
  \A p \in Procs :
    (pc[p] = "read_return" /\ path[p] = "insufficient_permissions") =>
      ReadReturnValue(p) = -EPERM

(* C5: a read whose lock acquisition was interrupted returns a value that  *)
(* is neither end-of-stream (0), nor the permission error, nor a byte      *)
(* count.                                                                  *)
C5_InterruptedReadReportsRetry ==
  \A p \in Procs :
    (pc[p] = "read_return" /\ path[p] = "device_mutex_lock_failed") =>
      ReadReturnValue(p) \notin ({-EPERM} \cup (0..MaxCount))

(* C6: an open whose lock acquisition is interrupted returns -ERESTARTSYS  *)
(* at once: no GPIO line is driven, no timestamp is taken, the buffer is   *)
(* unchanged, and the caller neither holds nor releases the lock.          *)
C6_InterruptedOpen ==
  /\ [](\A p \in Procs :
          (pc[p] = "open_return" /\ return_val[p] # 0) =>
            /\ return_val[p] = -ERESTARTSYS
            /\ return_val[p] < 0
            /\ start[p] = -1 /\ end[p] = -1
            /\ device_mutex # p)
  /\ [][\A p \in Procs :
          (pc[p] = "open_lock" /\ pc'[p] = "open_return") =>
            /\ return_val'[p] # 0
            /\ device_mutex # p
            /\ UNCHANGED <<out_pin, in_pin, clock, temperature, device_mutex, start, end>>]_vars

(* an interrupted open is about to return *)
C6_Witness ==
  \E p \in Procs : pc[p] = "open_return" /\ return_val[p] = -ERESTARTSYS

(* C7: with the cursor below the buffer's string length, a read whose      *)
(* caller takes every byte copies exactly n = min(count, length - cursor)  *)
(* bytes from the cursor on, advances the cursor by n, releases the lock   *)
(* and returns n.                                                          *)
C7_ReadCopies ==
  [][\A p \in Procs :
       (/\ pc[p] = "read_scan" /\ pc'[p] = "read_return"
        /\ f_pos[p] < Len(BufString(temperature))
        /\ uncopied'[p] = 0) =>
         LET n == Min(count'[p], Len(BufString(temperature)) - f_pos[p])
         IN  /\ ReadReturnValue(p)' = n
             /\ ubuf'[p] = SubSeq(temperature, f_pos[p] + 1, f_pos[p] + n)
             /\ f_pos'[p] = f_pos[p] + n
             /\ device_mutex' = 0]_vars

(* C8: a read whose cursor is at or past the buffer's string length        *)
(* returns 0 through the end-of-stream exit, leaves the cursor and the     *)
(* buffer unchanged, and has released the lock when it returns.            *)
C8_ReadAtEof ==
  [][\A p \in Procs :
       (/\ pc[p] = "read_scan" /\ pc'[p] = "read_return"
        /\ f_pos[p] >= Len(BufString(temperature))) =>
         /\ ReadReturnValue(p)' = 0
         /\ path'[p] = "close_function"
         /\ f_pos'[p] = f_pos[p]
         /\ temperature' = temperature
         /\ device_mutex' = 0]_vars

(* a read returns from the end-of-stream exit with its cursor past the     *)
(* string a later open wrote                                               *)
C8_Witness ==
  \E p \in Procs :
    /\ pc[p] = "read_return" /\ path[p] = "close_function"
    /\ f_pos[p] > Len(BufString(temperature))

(* C9: a read on a write-only session never acquires the lock, whoever     *)
(* holds it, and changes neither the GPIO lines, nor the buffer, nor any   *)
(* cursor.                                                                 *)
C9_WriteOnlyReadFrame ==
  /\ [](\A p \in Procs :
          (isopen[p] /\ f_flags[p] = "O_WRONLY") =>
            (pc[p] \notin {"read_lock", "read_scan"} /\ device_mutex # p))
  /\ [][\A p \in Procs :
          (isopen[p] /\ f_flags[p] = "O_WRONLY" /\ pc'[p] # pc[p]) =>
            UNCHANGED <<device_mutex, out_pin, in_pin, clock, temperature, f_pos>>]_vars

(* a write-only read is about to return while another caller holds the lock *)
C9_Witness ==
  \E p, q \in Procs :
    /\ p # q
    /\ pc[p] = "read_return" /\ path[p] = "insufficient_permissions"
    /\ device_mutex = q

RECURSIVE Reverse(_)
Reverse(s) == IF s = <<>> THEN <<>> ELSE Append(Reverse(Tail(s)), Head(s))

IsAcquire(e) == e[1] = "acquire"
IsRelease(e) == e[1] = "release"
Names(log) == [i \in 1..Len(log) |-> log[i][2]]

(* C10: when a failed load returns, every resource the earlier steps       *)
(* acquired has been released, in reverse order of acquisition, each once, *)
(* and load reports a negative error.                                      *)
C10_LoadFailureUnwinds ==
  modstate = "failed" =>
    /\ held = {}
    /\ Names(SelectSeq(loadlog, IsRelease)) = Reverse(Names(SelectSeq(loadlog, IsAcquire)))
    /\ result < 0

(* the buffer holds a NUL among the bytes allocated for it *)
Terminated(buf) == \E i \in 1..TEMPURATURE_LENGTH : buf[i] = NUL

(* C11: in every state from the completion of a successful load onward the *)
(* buffer holds a terminated text that fits its 30 bytes, and the length   *)
(* scan of read never looks at a byte beyond those 30.                     *)
C11_BufferTerminated ==
  modstate = "loaded" =>
    /\ Len(temperature) = TEMPURATURE_LENGTH
    /\ Terminated(temperature)
    /\ Len(BufString(temperature)) < TEMPURATURE_LENGTH
    /\ sizeof_temperature <= TEMPURATURE_LENGTH

(* elapsed / 10 + 600 in unbounded arithmetic, as a 64-bit word: the sum   *)
(* of a u64 divided by 10 and 600 is below 2^64                            *)
ExactResistance(elapsed) == AddSmall(DivSmall(elapsed, 10), 600)

(* the int r is the number the word x stands for as an unsigned value *)
IntIsWord(r, x) ==
  /\ x[1] = 0 /\ x[2] = 0 /\ x[3] < TopBit
  /\ r = x[3] * LimbBase + x[4]

(* C12: for every elapsed time an unsigned 64-bit integer can hold,        *)
(* time_to_resistance returns elapsed / 10 + 600 with truncating division  *)
(* (600 for 0, 1600 for 10000); no input makes the result differ.          *)
C12_TimeToResistance ==
  (call.fn = "time_to_resistance" /\ ret.done) =>
    /\ IntIsWord(ret.value, ExactResistance(call.arg))
    /\ (call.arg = U64(0) => ret.value = 600)
    /\ (call.arg = U64(10000) => ret.value = 1600)

(* ((resistance / 10) * -10 + 22705) / 463 in unbounded arithmetic, both   *)
(* divisions truncating toward zero                                        *)
ExactTemperature(resistance) ==
  LET a == TruncDiv(resistance, 10) * (-10)
  IN  IF a > INT_MAX - 22705 THEN WideSumDiv(a, 22705, 463)
      ELSE TruncDiv(a + 22705, 463)

(* C13: for every resistance a signed 32-bit integer can hold,             *)
(* resistance_to_temperature returns ((resistance / 10) * -10 + 22705)     *)
(* / 463 with both divisions truncating toward zero (46 for 1000, 44 for   *)
(* 2000), and every intermediate value stays within the signed 32-bit      *)
(* range.                                                                  *)
C13_ResistanceToTemperature ==
  (call.fn = "resistance_to_tempurature" /\ ret.done) =>
    /\ ret.value = ExactTemperature(call.arg)
    /\ ~SumOverflows(TruncDiv(call.arg, 10))
    /\ (call.arg = 1000 => ret.value = 46)
    /\ (call.arg = 2000 => ret.value = 44)

(* the step is a release of the session of p *)
ReleaseStep(p) == isopen[p] /\ ~isopen'[p]

(* C14: release always succeeds and changes nothing: the buffer, the lock, *)
(* both GPIO lines and the cursor of every session are after the call what *)
(* they were before it, and the device is ready for a later open (loaded,  *)
(* the caller back where an open starts).                                  *)
C14_ReleaseFrame ==
  [][\A p \in Procs :
       ReleaseStep(p) =>
         /\ UNCHANGED <<temperature, device_mutex, out_pin, in_pin>>
         /\ \A q \in Procs : isopen'[q] => f_pos'[q] = f_pos[q]
         /\ \A q \in Procs : q # p => (isopen'[q] = isopen[q] /\ pc'[q] = pc[q])
         /\ modstate' = "loaded" /\ pc'[p] = "idle"]_vars

(* an open returns success after the other caller, whose own open measured *)
(* too, has released its session                                           *)
C14_Witness ==
  \E p, q \in Procs :
    /\ p # q
    /\ nopens = 2 /\ clock >= 2 * MsleepNs
    /\ ~isopen[p] /\ pc[p] = "idle"
    /\ pc[q] = "open_return" /\ return_val[q] = 0

(* the caller is between taking the lock and the last write of the output  *)
Measuring(p) ==
  pc[p] \in {"open_low", "open_sleep", "open_t0", "open_high", "open_poll", "open_t1",
             "open_write", "open_idle"}

(* the positions of a measurement, in the order the claim gives its events *)
MeasurementOrder ==
  <<"open_low", "open_sleep", "open_t0", "open_high", "open_poll", "open_t1",
    "open_write", "open_idle", "open_unlock">>

(* what the step from position i to the next does *)
MeasurementEvent(p, i) ==
  CASE i = 1 -> out_pin' = 0
    [] i = 2 -> clock' = clock + MsleepNs /\ out_pin = 0
    [] i = 3 -> start'[p] = clock /\ out_pin = 0
    [] i = 4 -> out_pin' = 1 /\ start[p] >= 0
    [] i = 5 -> in_pin = 1 /\ out_pin = 1
    [] i = 6 -> end'[p] = clock /\ end'[p] >= start[p]
    [] i = 7 -> UNCHANGED <<out_pin, start, end>>
    [] i = 8 -> out_pin' = 0

(* C15: in every open that takes the lock the events come in this order,   *)
(* all with the lock held: output low, 5 ms delay, T0, output high, poll   *)
(* until the input reads high, T1, output low; so from a successful load   *)
(* on the output is low whenever no measurement is in progress.            *)
C15_MeasurementOrder ==
  /\ [](\A p \in Procs : Measuring(p) => device_mutex = p)
  /\ [][\A p \in Procs :
          (Measuring(p) /\ pc'[p] # pc[p]) =>
            \E i \in 1..8 :
              /\ pc[p] = MeasurementOrder[i] /\ pc'[p] = MeasurementOrder[i + 1]
              /\ MeasurementEvent(p, i)
              /\ device_mutex = p /\ device_mutex' = p]_vars
  /\ []((modstate = "loaded" /\ \A p \in Procs : ~Measuring(p)) => out_pin = 0)

(* a measurement has run to its end: both timestamps taken, the output low *)
(* again, the lock still held                                              *)
C15_Witness ==
  \E p \in Procs :
    /\ pc[p] = "open_unlock" /\ device_mutex = p
    /\ start[p] >= MsleepNs /\ end[p] > start[p]
    /\ out_pin = 0

(* the step of q gives up a wait for the lock with the interrupted outcome *)
AbortsWait(q) ==
  \/ pc[q] = "open_lock" /\ pc'[q] = "open_return" /\ return_val'[q] = -ERESTARTSYS
  \/ pc[q] = "read_lock" /\ pc'[q] = "read_return"
       /\ path'[q] = "device_mutex_lock_failed"

(* C16: an open that began its measurement gets past the poll only on a    *)
(* high sample of the input: there is no timeout.  If the input never      *)
(* reads high that open stays in the poll with the lock for ever, and no   *)
(* other open or read enters its critical section: a caller waiting for    *)
(* the lock keeps waiting or gives up with the interrupted outcome.        *)
C16_PollBlocks ==
  /\ [](\A p \in Procs :
          pc[p] = "open_poll" =>
            (device_mutex = p /\ \A q \in Procs : q # p => ~InCritical(q)))
  /\ [][\A p \in Procs :
          pc[p] = "open_poll" =>
            \/ pc'[p] = "open_poll" /\ device_mutex' = p
            \/ in_pin = 1 /\ pc'[p] = "open_t1" /\ device_mutex' = p]_vars
  /\ [][\A p, q \in Procs :
          (p # q /\ pc[p] = "open_poll" /\ pc[q] \in {"open_lock", "read_lock"}
             /\ pc'[q] # pc[q]) => AbortsWait(q)]_vars
  /\ \A p \in Procs :
       []((pc[p] = "open_poll" /\ [](in_pin = 0)) =>
            [](pc[p] = "open_poll" /\ device_mutex = p))

(* an open polls an input that is still low while the other caller, which  *)
(* has a session, waits for the lock in a read                             *)
C16_Witness ==
  \E p, q \in Procs :
    /\ p # q
    /\ pc[p] = "open_poll" /\ in_pin = 0
    /\ pc[q] = "read_lock"

(* C17: the cursor of a session changes only in a read of that session,    *)
(* by the number of bytes the read returns, and never decreases while the  *)
(* session lasts; the open, read and release calls of the other sessions,  *)
(* an open that rewrites the buffer among them, leave it as it was.        *)
C17_CursorOwned ==
  [][\A p \in Procs :
       (isopen[p] /\ isopen'[p]) =>
         /\ f_pos'[p] >= f_pos[p]
         /\ f_pos'[p] # f_pos[p] =>
              /\ pc[p] = "read_scan" /\ pc'[p] = "read_return"
              /\ f_pos'[p] = f_pos[p] + ReadReturnValue(p)'
         /\ (\E q \in Procs : q # p /\ (pc'[q] # pc[q] \/ isopen'[q] # isopen[q])) =>
              f_pos'[p] = f_pos[p]
         /\ temperature' # temperature => f_pos'[p] = f_pos[p]]_vars

(* a session has advanced its cursor and the other caller's open has just  *)
(* rewritten the buffer                                                    *)
C17_Witness ==
  \E p, q \in Procs :
    /\ p # q
    /\ isopen[p] /\ f_pos[p] > 0
    /\ pc[q] = "open_idle"

(* the caller is inside an open or a read *)
InCall(p) == pc[p] # "idle"

(* C18: a call that took the lock releases it once before it returns, a    *)
(* call that did not take it (interrupted, or rejected as write-only)      *)
(* never releases it; the lock is free whenever no open or read is in      *)
(* progress, and only its holder unlocks it.                               *)
C18_LockDiscipline ==
  /\ [](device_mutex \in {0} \cup Procs)
  /\ [](\A p \in Procs : device_mutex = p <=> InCritical(p))
  /\ []((\A p \in Procs : ~InCall(p)) => device_mutex = 0)
  /\ [][\A p \in Procs :
          /\ (device_mutex = p /\ device_mutex' # p) =>
               (pc[p] \in {"open_unlock", "read_scan"}
                  /\ pc'[p] \in {"open_return", "read_return"} /\ device_mutex' = 0)
          /\ (pc[p] \in {"open_lock", "read_check", "read_lock"}
                /\ pc'[p] \in {"open_return", "read_return"}) =>
               (device_mutex' = device_mutex /\ device_mutex # p)
          /\ (pc[p] \in {"open_return", "read_return"} /\ pc'[p] # pc[p]) =>
               (pc'[p] = "idle" /\ device_mutex' = device_mutex /\ device_mutex # p)]_vars

(* a read that took the lock is about to return while the other caller,    *)
(* which was interrupted waiting for it, returns too: the lock is free     *)
C18_Witness ==
  \E p, q \in Procs :
    /\ p # q
    /\ pc[p] = "read_return" /\ path[p] \in {"copied", "close_function"}
    /\ pc[q] \in {"open_return", "read_return"}
    /\ (pc[q] = "open_return" => return_val[q] = -ERESTARTSYS)
    /\ (pc[q] = "read_return" => path[q] = "device_mutex_lock_failed")
    /\ device_mutex = 0

(* the bytes the length scan of read walks over *)
Scanned == SubSeq(temperature, 1, StrnlenFrom(temperature, sizeof_temperature, 0))

(* s is the beginning of t *)
IsPrefix(s, t) == Len(s) <= Len(t) /\ s = SubSeq(t, 1, Len(s))

(* C19: no read scans or copies the buffer before an open has written it:  *)
(* a session exists only once its own open has written the buffer and      *)
(* returned success, so what a read scans is text written by an open,      *)
(* never the bytes the buffer was allocated with.                          *)
C19_ReadAfterWrite ==
  /\ \A p \in Procs : isopen[p] =>
       (lastWritten # <<>> /\ Terminated(temperature))
  /\ \A p \in Procs : pc[p] = "read_scan" =>
       /\ isopen[p]
       /\ temperature # CHOOSE g \in InitBuffers : TRUE
       /\ BufString(temperature) = lastWritten
       /\ IsPrefix(Scanned, lastWritten)
       /\ \A i \in 1..Len(Scanned) : Scanned[i] # GARBAGE

(* a read of the first session since load is at its length scan *)
C19_Witness ==
  \E p \in Procs : pc[p] = "read_scan" /\ nopens = 1

(* C20: if the input reads high in the end during every measurement and    *)
(* the lock is granted fairly, every open and every read returns in the    *)
(* end and the lock becomes free again; no interleaving of opens, reads    *)
(* and releases blocks for ever.                                           *)
C20_Progress ==
  /\ \A p \in Procs : InCall(p) ~> ~InCall(p)
  /\ (device_mutex # 0) ~> (device_mutex = 0)

(* an open waits for the lock while the other caller's open polls an input *)
(* that is still low                                                       *)
C20_Witness ==
  \E p, q \in Procs :
    /\ p # q
    /\ pc[p] = "open_lock"
    /\ pc[q] = "open_poll" /\ in_pin = 0

====
